---- MODULE Spec2Model ----
(***************************************************************************)
(* A model of our::ForwardRenderer (source/common/systems/                 *)
(* forward-renderer.cpp): initialize, destroy and render, together with    *)
(* the scene the renderer traverses and the GL calls it issues.            *)
(*                                                                         *)
(* Vectors are tuples of integers, matrices are column-major tuples of     *)
(* four columns (as glm::mat4).  Pointers to components are records that   *)
(* name the owning entity; pointers to renderer-owned objects are the      *)
(* names of the heap cells.  A null pointer is the empty sequence, a       *)
(* non-null pointer a one-element sequence.                                *)
(***************************************************************************)
EXTENDS Integers, Sequences, FiniteSets, TLC

\* ------------------------------------------------------------------ bounds
\* most entities a world holds
MaxEntities == 3
\* most scene changes between two render calls
MaxUpdates == 1
\* most destroy calls in one run
MaxDestroys == 2

\* ------------------------------------------------------------- glm algebra
Vec3(v) == <<v[1], v[2], v[3]>>

Vec4(v, w) == <<v[1], v[2], v[3], w>>

Sub(a, b) == <<a[1] - b[1], a[2] - b[2], a[3] - b[3]>>

Dot(a, b) == a[1] * b[1] + a[2] * b[2] + a[3] * b[3]

\* M * v with M column-major: M[c][r]
MatVec(M, v) ==
    << M[1][1] * v[1] + M[2][1] * v[2] + M[3][1] * v[3] + M[4][1] * v[4],
       M[1][2] * v[1] + M[2][2] * v[2] + M[3][2] * v[3] + M[4][2] * v[4],
       M[1][3] * v[1] + M[2][3] * v[2] + M[3][3] * v[3] + M[4][3] * v[4],
       M[1][4] * v[1] + M[2][4] * v[2] + M[3][4] * v[3] + M[4][4] * v[4] >>

MatMul(A, B) == << MatVec(A, B[1]), MatVec(A, B[2]), MatVec(A, B[3]), MatVec(A, B[4]) >>

Identity == << <<1, 0, 0, 0>>, <<0, 1, 0, 0>>, <<0, 0, 1, 0>>, <<0, 0, 0, 1>> >>

\* glm::translate(m, v): the last column becomes m * (v, 1)
Translate(m, v) == << m[1], m[2], m[3], MatVec(m, Vec4(v, 1)) >>

\* glm::scale(m, v): column i is scaled by v[i]
ScaleCol(c, s) == <<c[1] * s, c[2] * s, c[3] * s, c[4] * s>>

Scale(m, v) == << ScaleCol(m[1], v[1]), ScaleCol(m[2], v[2]), ScaleCol(m[3], v[3]), m[4] >>

\* ------------------------------------------------------------- the scene
\* rotations the entities of the scene use (about the Y axis)
RotY180 == << <<-1, 0, 0, 0>>, <<0, 1, 0, 0>>, <<0, 0, -1, 0>>, <<0, 0, 0, 1>> >>

RotY90 == << <<0, 0, -1, 0>>, <<0, 1, 0, 0>>, <<1, 0, 0, 0>>, <<0, 0, 0, 1>> >>

\* a world transform: rotation rot placed at position p
Placed(rot, p) == << rot[1], rot[2], rot[3], Vec4(p, 1) >>

\* the value a cached world-space field holds before any traversal wrote it
Stale == <<7, 7, 7>>

\* projection and view matrices as the camera component returns them
OrthoProjection == << <<1, 0, 0, 0>>, <<0, 1, 0, 0>>, <<0, 0, -1, 0>>, <<0, 0, -1, 1>> >>

PerspProjection == << <<2, 0, 0, 0>>, <<0, 2, 0, 0>>, <<0, 0, -3, -1>>, <<0, 0, -4, 0>> >>

\* the view matrix of a camera whose owner is Placed(RotY90, <<0, 0, -4>>):
\* the inverse of that transform
CamBView == << <<0, 0, 1, 0>>, <<0, 1, 0, 0>>, <<-1, 0, 0, 0>>, <<-4, 0, 0, 1>> >>

LitOpaque == [name |-> "litOpaque", kind |-> "DefaultMaterial", transparent |-> FALSE]

LitTransparent == [name |-> "litTransparent", kind |-> "DefaultMaterial", transparent |-> TRUE]

UnlitOpaque == [name |-> "unlitOpaque", kind |-> "TexturedMaterial", transparent |-> FALSE]

UnlitTransparent == [name |-> "unlitTransparent", kind |-> "TintedMaterial", transparent |-> TRUE]

MeshRenderer(mesh, material) == [mesh |-> mesh, material |-> material]

Camera(projection, view, orthoHeight) ==
    [projection |-> projection, view |-> view, orthoHeight |-> orthoHeight]

DirectionalLight(direction, intensity, color) ==
    [direction |-> direction, intensity |-> intensity, color |-> color]

SpotLight(intensity, color, lightDecay) ==
    [worldPosition |-> Stale, intensity |-> intensity, color |-> color,
     lightDecay |-> lightDecay]

ConeLight(direction, intensity, color, range) ==
    [direction |-> direction, worldPosition |-> Stale, worldDirection |-> Stale,
     intensity |-> intensity, color |-> color, range |-> range,
     smoothing |-> 1, lightDecay |-> 2]

Entity(name, localToWorld, camera, meshRenderer, directional, spot, cone) ==
    [name |-> name, localToWorld |-> localToWorld, camera |-> camera,
     meshRenderer |-> meshRenderer, directional |-> directional,
     spot |-> spot, cone |-> cone]

\* the entities a world is made of, as the scene systems create them
Pool ==
    { Entity("cam", Identity,
             << Camera(OrthoProjection, Identity, 1) >>, <<>>, <<>>,
             << SpotLight(5, <<1, 1, 1>>, 2) >>, <<>>),
      Entity("camB", Placed(RotY90, <<0, 0, -4>>),
             << Camera(PerspProjection, CamBView, 2) >>,
             << MeshRenderer("visor", UnlitTransparent) >>, <<>>, <<>>,
             << ConeLight(<<0, 0, -1>>, 3, <<1, 0, 1>>, 7) >>),
      Entity("boxA", Placed(Identity, <<0, 0, -2>>), <<>>,
             << MeshRenderer("cube", LitOpaque) >>,
             << DirectionalLight(<<0, -1, 0>>, 2, <<1, 1, 1>>) >>, <<>>, <<>>),
      Entity("boxB", Placed(RotY180, <<1, 0, -3>>), <<>>,
             << MeshRenderer("cube", UnlitOpaque) >>, <<>>,
             << SpotLight(3, <<1, 0, 0>>, 1) >>, <<>>),
      Entity("glassB", Placed(RotY90, <<0, 2, -3>>), <<>>,
             << MeshRenderer("pane", UnlitTransparent) >>, <<>>, <<>>,
             << ConeLight(<<0, 0, -1>>, 1, <<0, 1, 0>>, 5),
                ConeLight(<<1, 0, 0>>, 2, <<0, 0, 1>>, 6) >>),
      Entity("glassC", Placed(RotY180, <<2, 0, -1>>), <<>>,
             << MeshRenderer("orb", LitTransparent) >>,
             << DirectionalLight(<<1, 0, 0>>, 1, <<1, 1, 0>>) >>, <<>>, <<>>) }

\* a json configuration: the keys it has and the value of each (a field of a
\* key that is absent is never read)
Config(keys, areaLightValue, sky, postprocess) ==
    [keys |-> keys, areaLight |-> areaLightValue, sky |-> sky, postprocess |-> postprocess]

\* the arguments of initialize: the window size and the configuration, and
\* with them the shaders for which ShaderProgram::attach or ShaderProgram::link
\* reports a failure during the call
InitInputs ==
    { [failed |-> {}, windowSize |-> <<800, 600>>, config |-> Config({}, <<0, 0, 0>>, "", "")],
      [failed |-> {}, windowSize |-> <<800, 600>>,
       config |-> Config({"sky"}, <<0, 0, 0>>, "assets/sky.jpg", "")],
      [failed |-> {}, windowSize |-> <<640, 480>>,
       config |-> Config({"postprocess"}, <<0, 0, 0>>, "", "assets/vignette.frag")],
      [failed |-> {}, windowSize |-> <<800, 600>>,
       config |-> Config({"areaLight", "sky", "postprocess"}, <<2, 2, 2>>,
                         "assets/sky.jpg", "assets/vignette.frag")],
      [failed |-> {"skyShader", "postprocessShader"}, windowSize |-> <<640, 480>>,
       config |-> Config({"sky", "postprocess"}, <<0, 0, 0>>, "assets/sky.jpg",
                         "assets/vignette.frag")] }

\* the heap cells and GL objects the renderer may own
SkyResources == {"skySphere", "skyShader", "skyTexture", "skySampler", "skyMaterial"}

PostprocessResources ==
    {"postprocessFrameBuffer", "postProcessVertexArray", "colorTarget", "depthTarget",
     "postprocessSampler", "postprocessShader", "postprocessMaterial"}

Resources == SkyResources \cup PostprocessResources

VARIABLES
    world,                  \* the scene: the entities in traversal order
    updates,                \* scene changes since the latest render call
    lastCall,               \* the latest call made on the renderer or the scene
    destroyCalls,           \* number of destroy calls so far
    initConfig,             \* the configuration initialize was called with
    initFailed,             \* the shaders whose attach or link failed in initialize
    windowSize, areaLight,  \* ForwardRenderer fields
    skySphere, skyMaterial,
    postprocessFrameBuffer, postProcessVertexArray,
    colorTarget, depthTarget, postprocessMaterial,
    opaqueCommands, transparentCommands,
    directionalLights, spotLights, coneLights,
    gl,                     \* the GL context state
    heap,                   \* allocations and releases of every resource
    glLog                   \* the GL calls and draws of the latest render call

lists == <<opaqueCommands, transparentCommands, directionalLights, spotLights, coneLights>>

handles == <<windowSize, areaLight, skySphere, skyMaterial, postprocessFrameBuffer,
             postProcessVertexArray, colorTarget, depthTarget, postprocessMaterial>>

vars == <<world, updates, lastCall, destroyCalls, initConfig, initFailed, handles, lists, gl, heap, glLog>>

\* ------------------------------------------------------------ construction
NoCell == [allocs |-> 0, frees |-> 0]

Init ==
    /\ world = <<>>
    /\ updates = 0
    /\ lastCall = "construct"
    /\ destroyCalls = 0
    /\ initConfig = Config({}, <<0, 0, 0>>, "", "")
    /\ initFailed = {}
    /\ windowSize = <<0, 0>>
    /\ areaLight = <<0, 0, 0>>
    /\ skySphere = <<>>
    /\ skyMaterial = <<>>
    /\ postprocessFrameBuffer = 0
    /\ postProcessVertexArray = 0
    /\ colorTarget = <<>>
    /\ depthTarget = <<>>
    /\ postprocessMaterial = <<>>
    /\ opaqueCommands = <<>>
    /\ transparentCommands = <<>>
    /\ directionalLights = <<>>
    /\ spotLights = <<>>
    /\ coneLights = <<>>
    /\ gl = [framebuffer |-> 0, viewport |-> <<0, 0, 0, 0>>,
             clearColor |-> <<1, 1, 1, 1>>, clearDepth |-> 0,
             colorAttachment |-> <<>>, depthAttachment |-> <<>>]
    /\ heap = [n \in Resources |-> NoCell]
    /\ glLog = <<>>

\* -------------------------------------------------------------- initialize
\* config.contains(key)
ContainsOther(config, key) ==
    (IF key = "sky" THEN "postprocess" ELSE "sky") \in config.keys

Contains(config, key) == key \in config.keys

\* config.value(key, default)
Value(config, key, default) == IF Contains(config, key) THEN config[key] ELSE default

\* new / glGen* / a factory call: one more allocation of each cell of names
Allocate(h, names) ==
    [n \in Resources |-> IF n \in names THEN [h[n] EXCEPT !.allocs = @ + 1] ELSE h[n]]

\* delete / glDelete*: one more release of each cell of names
Release(h, names) ==
    [n \in Resources |-> IF n \in names THEN [h[n] EXCEPT !.frees = @ + 1] ELSE h[n]]

\* a shader program after attach, attach and link; the results of the three
\* calls are not looked at (lines 21-23 and 82-84), so the program is kept
\* whether or not it linked
ShaderProgram(name, vert, frag, failed) ==
    [name |-> name, stages |-> <<vert, frag>>, linked |-> name \notin failed]

Sampler(name, minFilter, magFilter, wrapS, wrapT) ==
    [name |-> name, minFilter |-> minFilter, magFilter |-> magFilter,
     wrapS |-> wrapS, wrapT |-> wrapT]

\* a texture: texture_utils::loadImage(path) or texture_utils::empty(format, size)
LoadedImage(name, path) == [name |-> name, format |-> "GL_RGBA8", size |-> <<0, 0>>, path |-> path]

Texture2D(name, format, size) == [name |-> name, format |-> format, size |-> size, path |-> ""]

\* the sky material built by lines 19-53
SkyMaterial(config, failed) ==
    [name |-> "skyMaterial", kind |-> "DefaultMaterial",
     shader |-> ShaderProgram("skyShader", "assets/shaders/default.vert",
                              "assets/shaders/default.frag", failed),
     texture |-> LoadedImage("skyTexture", Value(config, "sky", "")),
     sampler |-> Sampler("skySampler", "GL_LINEAR", "GL_LINEAR", "GL_REPEAT",
                         "GL_CLAMP_TO_EDGE"),
     pipelineState |-> [faceCulling |-> TRUE, frontFace |-> "GL_CW",
                        depthMask |-> TRUE, depthTesting |-> TRUE],
     tint |-> <<1, 1, 1, 1>>, transparent |-> FALSE, isSkybox |-> TRUE]

\* the post-process material built by lines 74-93
PostprocessMaterial(config, color, failed) ==
    [name |-> "postprocessMaterial", kind |-> "TexturedMaterial",
     shader |-> ShaderProgram("postprocessShader", "assets/shaders/fullscreen.vert",
                              Value(config, "postprocess", ""), failed),
     texture |-> color,
     sampler |-> Sampler("postprocessSampler", "GL_LINEAR", "GL_LINEAR",
                         "GL_CLAMP_TO_EDGE", "GL_CLAMP_TO_EDGE"),
     pipelineState |-> [faceCulling |-> FALSE, frontFace |-> "GL_CCW",
                        depthMask |-> FALSE, depthTesting |-> FALSE],
     tint |-> <<1, 1, 1, 1>>, transparent |-> FALSE, isSkybox |-> FALSE]

Initialize(in) ==
    /\ lastCall = "construct"
    /\ lastCall' = "initialize"
    /\ initConfig' = in.config
    /\ initFailed' = in.failed
    /\ windowSize' = in.windowSize
    /\ areaLight' = Value(in.config, "areaLight", <<1, 1, 1>>)
    /\ IF Contains(in.config, "sky")
       THEN /\ skySphere' = <<"skySphere">>
            /\ skyMaterial' = << SkyMaterial(in.config, in.failed) >>
       ELSE UNCHANGED <<skySphere, skyMaterial>>
    /\ IF Contains(in.config, "postprocess")
       THEN /\ postprocessFrameBuffer' = 1
            /\ colorTarget' = << Texture2D("colorTarget", "GL_RGBA8", in.windowSize) >>
            /\ depthTarget' =
                   << Texture2D("depthTarget", "GL_DEPTH_COMPONENT24", in.windowSize) >>
            /\ gl' = [gl EXCEPT !.framebuffer = 0,
                                !.colorAttachment = <<"colorTarget">>,
                                !.depthAttachment = <<"depthTarget">>]
            /\ postProcessVertexArray' = 1
            /\ postprocessMaterial' =
                   << PostprocessMaterial(in.config,
                          Texture2D("colorTarget", "GL_RGBA8", in.windowSize),
                          in.failed) >>
       ELSE UNCHANGED <<postprocessFrameBuffer, colorTarget, depthTarget, gl,
                        postProcessVertexArray, postprocessMaterial>>
    /\ heap' = Allocate(Allocate(heap,
                   IF Contains(in.config, "sky") THEN SkyResources ELSE {}),
                   IF Contains(in.config, "postprocess") THEN PostprocessResources ELSE {})
    /\ UNCHANGED <<world, updates, destroyCalls, lists, glLog>>

\* ----------------------------------------------------------------- destroy
\* the cells released for the sky, lines 100-104
SkyReleases(material) ==
    {"skySphere", material.shader.name, material.texture.name, material.sampler.name,
     material.name}

\* the cells released for post-processing, lines 108-114
PostprocessReleasesNoDepth(material) ==
    {"postprocessFrameBuffer", "postProcessVertexArray", "colorTarget",
     material.sampler.name, material.shader.name, material.name}

PostprocessReleases(material) ==
    {"postprocessFrameBuffer", "postProcessVertexArray", "colorTarget", "depthTarget",
     material.sampler.name, material.shader.name, material.name}

\* destroy leaves skyMaterial and postprocessMaterial as they are (lines
\* 99-115 assign neither), so after a destroy call a non-null handle points
\* to a released material
Dangling ==
    destroyCalls > 0 /\ (skyMaterial # <<>> \/ postprocessMaterial # <<>>)

\* the process stops: one outcome of reading or releasing a released object
Crash ==
    /\ lastCall' = "crash"
    /\ UNCHANGED <<world, updates, destroyCalls, initConfig, initFailed, handles, lists,
                   gl, heap, glLog>>

\* the application destroys the renderer between frames, when the state ends;
\* a call that finds a dangling handle reads the released material and
\* releases its parts again, or stops the process
Destroy ==
    /\ lastCall \notin {"construct", "crash"}
    /\ updates = 0
    /\ destroyCalls < MaxDestroys
    /\ \/ /\ destroyCalls' = destroyCalls + 1
          /\ lastCall' = "destroy"
          /\ heap' = Release(Release(heap,
                         IF skyMaterial # <<>> THEN SkyReleases(skyMaterial[1]) ELSE {}),
                         IF postprocessMaterial # <<>>
                         THEN PostprocessReleases(postprocessMaterial[1]) ELSE {})
          /\ UNCHANGED <<world, updates, initConfig, initFailed, handles, lists, gl, glLog>>
       \/ Dangling /\ Crash

\* ------------------------------------------------- render: the traversal
\* std::vector::clear, lines 121-125
Kept(list) == list

Cleared(list) == <<>>

\* entity->getComponent<T>(): a pointer to the first component of the kind,
\* or null
GetComponent(entity, kind) ==
    IF entity[kind] = <<>> THEN <<>>
    ELSE << [owner |-> entity.name, kind |-> kind, index |-> 1] >>

\* entity->getAllComponents<T>(): pointers to all components of the kind
GetAllComponents(entity, kind) ==
    [i \in 1..Len(entity[kind]) |-> [owner |-> entity.name, kind |-> kind, index |-> i]]

\* entity->getLocalToWorldMatrix()
GetLocalToWorldMatrix(entity) == entity.localToWorld

\* the RenderCommand of lines 137-141
RenderCommand(localToWorld, position, meshRenderer) ==
    [localToWorld |-> localToWorld, center |-> Vec3(position),
     mesh |-> meshRenderer.mesh, material |-> meshRenderer.material]

\* std::vector::push_back, lines 144 and 147
PushFront(list, command) == <<command>> \o list

PushBack(list, command) == Append(list, command)

\* the writes to the lights of one entity, lines 158, 164 and 165
WriteLightsNoSpot(entity, localToWorld, position) ==
    [entity EXCEPT
        !.cone = [i \in 1..Len(entity.cone) |->
                    [entity.cone[i] EXCEPT
                        !.worldPosition = Vec3(position),
                        !.worldDirection =
                            Vec3(MatVec(localToWorld, Vec4(entity.cone[i].direction, 0)))]]]

WriteLightsAsPoint(entity, localToWorld, position) ==
    [entity EXCEPT
        !.spot = [i \in 1..Len(entity.spot) |->
                    IF i = 1
                    THEN [entity.spot[i] EXCEPT !.worldPosition = Vec3(position)]
                    ELSE entity.spot[i]],
        !.cone = [i \in 1..Len(entity.cone) |->
                    [entity.cone[i] EXCEPT
                        !.worldPosition = Vec3(position),
                        !.worldDirection =
                            Vec3(MatVec(localToWorld, Vec4(entity.cone[i].direction, 1)))]]]

WriteLightsDirectional(entity, localToWorld, position) ==
    [entity EXCEPT
        !.directional = [i \in 1..Len(entity.directional) |->
                    [entity.directional[i] EXCEPT
                        !.direction =
                            Vec3(MatVec(localToWorld,
                                        Vec4(entity.directional[i].direction, 0)))]],
        !.spot = [i \in 1..Len(entity.spot) |->
                    IF i = 1
                    THEN [entity.spot[i] EXCEPT !.worldPosition = Vec3(position)]
                    ELSE entity.spot[i]],
        !.cone = [i \in 1..Len(entity.cone) |->
                    [entity.cone[i] EXCEPT
                        !.worldPosition = Vec3(position),
                        !.worldDirection =
                            Vec3(MatVec(localToWorld, Vec4(entity.cone[i].direction, 0)))]]]

WriteLights(entity, localToWorld, position) ==
    [entity EXCEPT
        !.spot = [i \in 1..Len(entity.spot) |->
                    IF i = 1
                    THEN [entity.spot[i] EXCEPT !.worldPosition = Vec3(position)]
                    ELSE entity.spot[i]],
        !.cone = [i \in 1..Len(entity.cone) |->
                    [entity.cone[i] EXCEPT
                        !.worldPosition = Vec3(position),
                        !.worldDirection =
                            Vec3(MatVec(localToWorld, Vec4(entity.cone[i].direction, 0)))]]]

\* line 129: the camera kept after an entity is visited; an entity is asked
\* for a camera only while none has been found
FindCameraLatest(camera, entity) ==
    IF GetComponent(entity, "camera") # <<>> THEN GetComponent(entity, "camera")
    ELSE camera

FindCamera(camera, entity) ==
    IF camera = <<>> THEN GetComponent(entity, "camera") ELSE camera

\* line 143: the list a command goes to
IsTransparentNever(command) == FALSE

IsTransparent(command) == command.material.transparent

\* one iteration of the loop of lines 127-167; acc holds the camera found so
\* far, the five lists and the entities already visited
VisitEntity(acc, entity) ==
    LET localToWorld == GetLocalToWorldMatrix(entity)
        position == MatVec(localToWorld, <<0, 0, 0, 1>>)
        meshRenderer == entity.meshRenderer
        command == RenderCommand(localToWorld, position, meshRenderer[1])
        isMesh == meshRenderer # <<>>
    IN  [camera |-> FindCamera(acc.camera, entity),
         opaque |-> IF isMesh /\ ~IsTransparent(command)
                    THEN PushBack(acc.opaque, command) ELSE acc.opaque,
         transparent |-> IF isMesh /\ IsTransparent(command)
                         THEN PushBack(acc.transparent, command) ELSE acc.transparent,
         directional |-> acc.directional \o GetComponent(entity, "directional"),
         spot |-> acc.spot \o GetComponent(entity, "spot"),
         cone |-> acc.cone \o GetAllComponents(entity, "cone"),
         entities |-> Append(acc.entities, WriteLights(entity, localToWorld, position))]

RECURSIVE VisitAll(_, _)
VisitAll(acc, entities) ==
    IF entities = <<>> THEN acc
    ELSE VisitAll(VisitEntity(acc, Head(entities)), Tail(entities))

\* lines 120-167: the lists are cleared, then every entity is visited
Traverse(w) ==
    VisitAll([camera |-> <<>>,
              opaque |-> Cleared(opaqueCommands),
              transparent |-> Cleared(transparentCommands),
              directional |-> Cleared(directionalLights),
              spot |-> Cleared(spotLights),
              cone |-> Cleared(coneLights),
              entities |-> <<>>], w)

\* the entity a component pointer names, in the scene w
Owner(w, ptr) == CHOOSE i \in 1..Len(w) : w[i].name = ptr.owner

\* *ptr
Deref(w, ptr) == w[Owner(w, ptr)][ptr.kind][ptr.index]

\* ------------------------------------------------ render: transparency sort
\* the comparator of lines 184-188: TRUE when first is drawn before second
CompNearFirst(first, second, cameraForward, cameraCenter) ==
    Dot(Sub(first.center, cameraCenter), cameraForward)
        < Dot(Sub(second.center, cameraCenter), cameraForward)

Comp(first, second, cameraForward, cameraCenter) ==
    Dot(Sub(second.center, cameraCenter), cameraForward)
        < Dot(Sub(first.center, cameraCenter), cameraForward)

\* the inner loop of the insertion sort std::sort runs on a short range:
\* val moves towards the front while it compares before its predecessor
RECURSIVE LinearInsert(_, _, _, _)
LinearInsert(sorted, val, cameraForward, cameraCenter) ==
    IF sorted # <<>> /\ Comp(val, sorted[Len(sorted)], cameraForward, cameraCenter)
    THEN Append(LinearInsert(SubSeq(sorted, 1, Len(sorted) - 1), val,
                             cameraForward, cameraCenter),
                sorted[Len(sorted)])
    ELSE Append(sorted, val)

RECURSIVE InsertionSort(_, _, _, _)
InsertionSort(sorted, rest, cameraForward, cameraCenter) ==
    IF rest = <<>> THEN sorted
    ELSE InsertionSort(LinearInsert(sorted, Head(rest), cameraForward, cameraCenter),
                       Tail(rest), cameraForward, cameraCenter)

\* std::sort(transparentCommands.begin(), transparentCommands.end(), comp)
Sort(commands, cameraForward, cameraCenter) ==
    InsertionSort(<<>>, commands, cameraForward, cameraCenter)

\* ------------------------------------------------- render: the GL calls
\* one entry of the log: a GL call, a material setup or a draw, with the
\* draw framebuffer bound when it is issued (group: which part of the frame
\* issued it; command: the render command drawn, if any; uniforms: the
\* shader->set calls made for it, in order)
Event(op, group, fb, subject, material, command, uniforms, args) ==
    [op |-> op, group |-> group, fb |-> fb, subject |-> subject, material |-> material,
     command |-> command, uniforms |-> uniforms, args |-> args]

\* the material an event is about: its name and dynamic type
MaterialOf(material) == [name |-> material.name, kind |-> material.kind]

NoMaterial == [name |-> "", kind |-> ""]

\* dynamic_cast<DefaultMaterial*>(material) succeeds
IsDefaultMaterial(material) == material.kind = "DefaultMaterial"

\* the uniforms of one light array: the count, then the fields of each light
\* under "<array>[i].<field>", i counted from 0 (lines 226-259 and 309-342)
LightUniformsOneBased(countName, array, fields, lights) ==
    [j \in 1..(1 + Len(lights) * Len(fields)) |->
        IF j = 1 THEN <<countName, Len(lights)>>
        ELSE LET i == (j - 2) \div Len(fields)
                 f == fields[((j - 2) % Len(fields)) + 1]
             IN  << array \o "[" \o ToString(i + 1) \o "]." \o f[1], lights[i + 1][f[2]] >>]

LightUniforms(countName, array, fields, lights) ==
    [j \in 1..(1 + Len(lights) * Len(fields)) |->
        IF j = 1 THEN <<countName, Len(lights)>>
        ELSE LET i == (j - 2) \div Len(fields)
                 f == fields[((j - 2) % Len(fields)) + 1]
             IN  << array \o "[" \o ToString(i) \o "]." \o f[1], lights[i + 1][f[2]] >>]

DirectionalFields ==
    << <<"direction", "direction">>, <<"intensity", "intensity">>, <<"color", "color">> >>

SpotFields ==
    << <<"position", "worldPosition">>, <<"intensity", "intensity">>,
       <<"color", "color">>, <<"decay", "lightDecay">> >>

ConeFields ==
    << <<"position", "worldPosition">>, <<"intensity", "intensity">>,
       <<"color", "color">>, <<"direction", "worldDirection">>, <<"range", "range">>,
       <<"smoothing", "smoothing">>, <<"decay", "lightDecay">> >>

\* the lights the pointers of a list point to
Pointees(w, list) == [i \in 1..Len(list) |-> Deref(w, list[i])]

\* the light uniforms of a lit draw: directional, then spot, then cone (lines
\* 226-259 and 309-342)
AllLightUniformsSpotCount(w, directional, spot, cone) ==
    << <<"directionalLightCount", Len(spot)>> >>
    \o Tail(LightUniforms("directionalLightCount", "directionalLights",
                          DirectionalFields, Pointees(w, directional)))
    \o LightUniforms("spotLightsCount", "spotLights", SpotFields, Pointees(w, spot))
    \o LightUniforms("coneLightsCount", "coneLights", ConeFields, Pointees(w, cone))

AllLightUniforms(w, directional, spot, cone) ==
    LightUniforms("directionalLightCount", "directionalLights", DirectionalFields,
                  Pointees(w, directional))
    \o LightUniforms("spotLightsCount", "spotLights", SpotFields, Pointees(w, spot))
    \o LightUniforms("coneLightsCount", "coneLights", ConeFields, Pointees(w, cone))

\* the body of the loop of lines 216-264: setup, uniforms, draw
DrawOpaque(k, t, VP, cameraCenter, fb) ==
    Event("draw", "opaque", fb, k.mesh, MaterialOf(k.material), <<k>>,
          IF IsDefaultMaterial(k.material)
          THEN << <<"transform", k.localToWorld>>, <<"Camera", VP>>,
                  <<"cameraPosition", cameraCenter>>, <<"areaLight", areaLight>> >>
               \o AllLightUniforms(t.entities, t.directional, t.spot, t.cone)
          ELSE << <<"transform", MatMul(VP, k.localToWorld)>> >>,
          <<>>)

\* the body of the loop of lines 299-347
DrawTransparentNoCameraPosition(k, t, VP, cameraCenter, fb) ==
    Event("draw", "transparent", fb, k.mesh, MaterialOf(k.material), <<k>>,
          IF IsDefaultMaterial(k.material)
          THEN << <<"transform", k.localToWorld>>, <<"Camera", VP>>,
                  <<"areaLight", areaLight>> >>
               \o AllLightUniforms(t.entities, t.directional, t.spot, t.cone)
          ELSE << <<"transform", MatMul(VP, k.localToWorld)>> >>,
          <<>>)

DrawTransparent(k, t, VP, cameraCenter, fb) ==
    Event("draw", "transparent", fb, k.mesh, MaterialOf(k.material), <<k>>,
          IF IsDefaultMaterial(k.material)
          THEN << <<"transform", k.localToWorld>>, <<"Camera", VP>>,
                  <<"areaLight", areaLight>>, <<"cameraPosition", cameraCenter>> >>
               \o AllLightUniforms(t.entities, t.directional, t.spot, t.cone)
          ELSE << <<"transform", MatMul(VP, k.localToWorld)>> >>,
          <<>>)

\* the matrix of lines 280-285 (glm::mat4 takes its sixteen values by column)
alwaysBehindTransformByRow ==
    << <<1, 0, 0, 0>>, <<0, 1, 0, 0>>, <<0, 0, 0, 1>>, <<0, 0, 0, 1>> >>

alwaysBehindTransform ==
    << <<1, 0, 0, 0>>, <<0, 1, 0, 0>>, <<0, 0, 0, 0>>, <<0, 0, 1, 1>> >>

\* lines 267-296: the sky draw, if there is a sky material
SkyEvents(camera, VP, cameraCenter, fb) ==
    IF skyMaterial # <<>>
    THEN LET M == Translate(Identity, cameraCenter)
             h == camera.orthoHeight * 2
             skyboxScaleMatrix == Scale(Identity, <<h, h, h>>)
         IN  << Event("draw", "sky", fb, skySphere[1], MaterialOf(skyMaterial[1]), <<>>,
                      << <<"areaLight", areaLight>>,
                         <<"transform", MatMul(M, skyboxScaleMatrix)>>,
                         <<"Camera", MatMul(alwaysBehindTransform, VP)>> >>,
                      <<>>) >>
    ELSE <<>>

\* lines 194-202: viewport, clear values and write masks
StateEvents(fb) ==
    << Event("glViewport", "state", fb, "", NoMaterial, <<>>, <<>>,
             <<0, 0, windowSize[1], windowSize[2]>>),
       Event("glClearColor", "state", fb, "", NoMaterial, <<>>, <<>>, <<0, 0, 0, 0>>),
       Event("glClearDepth", "state", fb, "", NoMaterial, <<>>, <<>>, <<1>>),
       Event("glColorMask", "state", fb, "", NoMaterial, <<>>, <<>>, <<1, 1, 1, 1>>),
       Event("glDepthMask", "state", fb, "", NoMaterial, <<>>, <<>>, <<1>>) >>

\* lines 206-209: the offscreen framebuffer becomes the draw target
BindOffscreen(fb) ==
    IF postprocessMaterial # <<>>
    THEN << Event("glBindFramebuffer", "state", postprocessFrameBuffer, "", NoMaterial, <<>>,
                  <<>>, <<postprocessFrameBuffer>>) >>
    ELSE <<>>

\* the framebuffer bound for the clear and the scene draws
SceneTarget(fb) == IF postprocessMaterial # <<>> THEN postprocessFrameBuffer ELSE fb

\* line 212
ClearEvents(fb) ==
    << Event("glClear", "clear", fb, "", NoMaterial, <<>>, <<>>, <<>>) >>

\* lines 350-357: the fullscreen pass, if there is a post-process material
PostprocessPassNoRebind(fb) ==
    IF postprocessMaterial # <<>>
    THEN << Event("setup", "postprocess", fb, "", MaterialOf(postprocessMaterial[1]),
                  <<>>, <<>>, <<>>),
            Event("glBindVertexArray", "postprocess", fb, "", NoMaterial, <<>>, <<>>,
                  <<postProcessVertexArray>>),
            Event("glDrawArrays", "postprocess", fb, "GL_TRIANGLES",
                  MaterialOf(postprocessMaterial[1]), <<>>, <<>>, <<0, 3>>) >>
    ELSE <<>>

PostprocessPass(fb) ==
    IF postprocessMaterial # <<>>
    THEN << Event("glBindFramebuffer", "postprocess", 0, "", NoMaterial, <<>>, <<>>, <<0>>),
            Event("setup", "postprocess", 0, "", MaterialOf(postprocessMaterial[1]),
                  <<>>, <<>>, <<>>),
            Event("glBindVertexArray", "postprocess", 0, "", NoMaterial, <<>>, <<>>,
                  <<postProcessVertexArray>>),
            Event("glDrawArrays", "postprocess", 0, "GL_TRIANGLES",
                  MaterialOf(postprocessMaterial[1]), <<>>, <<>>, <<0, 3>>) >>
    ELSE <<>>

\* the order in which lines 194-357 issue the parts of a frame
FrameOrderSkyFirst(state, bind, clear, opaque, sky, transparent, post) ==
    state \o bind \o clear \o sky \o opaque \o transparent \o post

FrameOrder(state, bind, clear, opaque, sky, transparent, post) ==
    state \o bind \o clear \o opaque \o sky \o transparent \o post

\* lines 174-357: the frame drawn for the camera found; t is the result of
\* the traversal, sorted the transparent commands after line 188
FrameEvents(t, sorted) ==
    LET owner == t.entities[Owner(t.entities, t.camera[1])]
        camera == Deref(t.entities, t.camera[1])
        camTransform == GetLocalToWorldMatrix(owner)
        cameraCenter == Vec3(MatVec(camTransform, <<0, 0, 0, 1>>))
        VP == MatMul(camera.projection, camera.view)
        fb == SceneTarget(gl.framebuffer)
    IN  FrameOrder(StateEvents(gl.framebuffer),
                   BindOffscreen(gl.framebuffer),
                   ClearEvents(fb),
                   [i \in 1..Len(t.opaque) |->
                        DrawOpaque(t.opaque[i], t, VP, cameraCenter, fb)],
                   SkyEvents(camera, VP, cameraCenter, fb),
                   [i \in 1..Len(sorted) |->
                        DrawTransparent(sorted[i], t, VP, cameraCenter, fb)],
                   PostprocessPass(fb))

\* the transparent list render leaves: sorted when a camera was found
SortedTransparent(t) ==
    IF t.camera = <<>> THEN t.transparent
    ELSE LET camTransform ==
                 GetLocalToWorldMatrix(t.entities[Owner(t.entities, t.camera[1])])
             cameraForward == Vec3(MatVec(camTransform, <<0, 0, -1, 0>>))
             cameraCenter == Vec3(MatVec(camTransform, <<0, 0, 0, 1>>))
         IN  Sort(t.transparent, cameraForward, cameraCenter)

\* the GL calls of one render call: none when line 170 returns
RenderEventsClearFirst(t) ==
    IF t.camera = <<>> THEN ClearEvents(gl.framebuffer)
    ELSE FrameEvents(t, SortedTransparent(t))

RenderEvents(t) ==
    IF t.camera = <<>> THEN <<>> ELSE FrameEvents(t, SortedTransparent(t))

\* the GL state a frame leaves: the state set by lines 194-198 and the
\* framebuffer bound by the last glBindFramebuffer of the log
FrameState(g, log) ==
    LET binds == SelectSeq(log, LAMBDA e : e.op = "glBindFramebuffer")
    IN  [g EXCEPT !.viewport = <<0, 0, windowSize[1], windowSize[2]>>,
                  !.clearColor = <<0, 0, 0, 0>>,
                  !.clearDepth = 1,
                  !.framebuffer = IF binds = <<>> THEN @ ELSE binds[Len(binds)].args[1]]

\* the GL state after one render call: untouched when line 170 returns
RenderStateViewportFirst(t, log) == FrameState(gl, log)

RenderState(t, log) == IF t.camera = <<>> THEN gl ELSE FrameState(gl, log)

\* a frame drawn through a dangling handle (lines 269 and 354 call setup on
\* the released material) is drawn as before, or stops the process
Render ==
    /\ lastCall \notin {"construct", "crash"}
    /\ \/ /\ \E t \in {Traverse(world)} : \E log \in {RenderEvents(t)} :
                 /\ world' = t.entities
                 /\ opaqueCommands' = t.opaque
                 /\ transparentCommands' = SortedTransparent(t)
                 /\ directionalLights' = t.directional
                 /\ spotLights' = t.spot
                 /\ coneLights' = t.cone
                 /\ glLog' = log
                 /\ gl' = RenderState(t, log)
          /\ lastCall' = "render"
          /\ updates' = 0
          /\ UNCHANGED <<destroyCalls, initConfig, initFailed, handles, heap>>
       \/ Dangling /\ Traverse(world).camera # <<>> /\ Crash

\* ------------------------------------------------------ the scene changes
\* while the renderer is in use the scene systems add an entity ...
AddEntity(e) ==
    /\ destroyCalls = 0
    /\ updates < MaxUpdates
    /\ Len(world) < MaxEntities
    /\ \A i \in 1..Len(world) : world[i].name # e.name
    /\ world' = Append(world, e)
    /\ updates' = updates + 1
    /\ lastCall' = "update"
    /\ UNCHANGED <<destroyCalls, initConfig, initFailed, handles, lists, gl, heap, glLog>>

\* ... or delete one
RemoveEntity(i) ==
    /\ destroyCalls = 0
    /\ updates < MaxUpdates
    /\ i \in 1..Len(world)
    /\ world' = [j \in 1..(Len(world) - 1) |-> IF j < i THEN world[j] ELSE world[j + 1]]
    /\ updates' = updates + 1
    /\ lastCall' = "update"
    /\ UNCHANGED <<destroyCalls, initConfig, initFailed, handles, lists, gl, heap, glLog>>

Next ==
    \/ \E in \in InitInputs : Initialize(in)
    \/ \E e \in Pool : AddEntity(e)
    \/ \E i \in 1..MaxEntities : RemoveEntity(i)
    \/ Render
    \/ Destroy

Spec == Init /\ [][Next]_vars

\* ------------------------------------------------------------- properties
\* no entity of the scene w carries a camera
NoCamera(w) == \A i \in 1..Len(w) : w[i].camera = <<>>

\* the latest call was render and it found a camera / found none
CameraFrame == lastCall = "render" /\ ~NoCamera(world)

NoCameraFrame == lastCall = "render" /\ NoCamera(world)

\* the owner of the camera of the frame: the first entity with a camera
FirstCameraEntity(w) ==
    w[CHOOSE i \in 1..Len(w) :
        /\ w[i].camera # <<>>
        /\ \A j \in 1..(i - 1) : w[j].camera = <<>>]

\* the clears and draws of a log, in the order issued
IsWrite(e) == e.op \in {"glClear", "draw", "glDrawArrays"}

Writes(log) == SelectSeq(log, IsWrite)

InGroup(log, group) == SelectSeq(Writes(log), LAMBDA e : e.group = group)

\* the command the scene entity e yields
CommandOf(e) ==
    [localToWorld |-> e.localToWorld,
     center |-> <<e.localToWorld[4][1], e.localToWorld[4][2], e.localToWorld[4][3]>>,
     mesh |-> e.meshRenderer[1].mesh, material |-> e.meshRenderer[1].material]

\* the commands of the entities of w whose material is transparent (or not),
\* in the order of the entities
MeshEntities(w, transparent) ==
    SelectSeq(w, LAMBDA e : /\ e.meshRenderer # <<>>
                            /\ e.meshRenderer[1].material.transparent = transparent)

ExpectedCommands(w, transparent) ==
    [i \in 1..Len(MeshEntities(w, transparent)) |->
        CommandOf(MeshEntities(w, transparent)[i])]

\* the commands drawn by the draws of a group, in the order drawn
Drawn(log, group) ==
    [i \in 1..Len(InGroup(log, group)) |-> InGroup(log, group)[i].command[1]]

\* number of times x occurs in the sequence s
Count(s, x) == Cardinality({i \in 1..Len(s) : s[i] = x})

\* s is a permutation of t
IsPermutation(s, t) ==
    /\ Len(s) = Len(t)
    /\ \A i \in 1..Len(t) : Count(s, t[i]) = Count(t, t[i])

\* C1: a render call on a world without a camera issues no clear, no mesh
\* draw, no sky draw and no post-process pass, so neither the default nor the
\* offscreen target is written, whatever features initialize enabled
C1_NoCameraNoDraw ==
    NoCameraFrame =>
        /\ \A i \in 1..Len(glLog) : glLog[i].op \notin {"glClear", "draw", "glDrawArrays"}
        /\ \A i \in 1..Len(glLog) : glLog[i].group \notin {"sky", "postprocess"}

C1_Witness ==
    /\ NoCameraFrame
    /\ skyMaterial # <<>>
    /\ postprocessMaterial # <<>>
    /\ opaqueCommands # <<>>
    /\ transparentCommands # <<>>

\* the place of a clear or draw in the order of a frame
Rank(e) ==
    CASE e.group = "clear" -> 1
      [] e.group = "opaque" -> 2
      [] e.group = "sky" -> 3
      [] e.group = "transparent" -> 4
      [] e.group = "postprocess" -> 5

\* C2: in a frame with a camera the clears and draws come in the order
\* clear, opaque draws, sky draw, transparent draws, post-process pass: one
\* clear comes first, every collected command is drawn in its group, and no
\* draw of a later group precedes a draw of an earlier group
C2_FrameOrder ==
    CameraFrame =>
        LET w == Writes(glLog)
        IN  /\ w # <<>>
            /\ w[1].op = "glClear"
            /\ Len(InGroup(glLog, "clear")) = 1
            /\ \A i, j \in 1..Len(w) : i < j => Rank(w[i]) <= Rank(w[j])
            /\ Len(InGroup(glLog, "opaque")) = Len(opaqueCommands)
            /\ Len(InGroup(glLog, "transparent")) = Len(transparentCommands)
            /\ (skyMaterial # <<>>) => Len(InGroup(glLog, "sky")) = 1
            /\ (postprocessMaterial # <<>>) => Len(InGroup(glLog, "postprocess")) = 1

C2_Witness ==
    /\ CameraFrame
    /\ InGroup(glLog, "opaque") # <<>>
    /\ InGroup(glLog, "sky") # <<>>
    /\ InGroup(glLog, "transparent") # <<>>
    /\ InGroup(glLog, "postprocess") # <<>>

\* the projection of a command's center onto the forward axis of the camera
\* owned by the entity owner
Depth(command, owner) ==
    Dot(Sub(command.center, Vec3(MatVec(owner.localToWorld, <<0, 0, 0, 1>>))),
        Vec3(MatVec(owner.localToWorld, <<0, 0, -1, 0>>)))

\* C3: in a frame with a camera the transparent commands drawn are a
\* permutation of the transparent commands collected, and of every two
\* adjacent ones the first is at least as far along the camera's forward
\* axis as the second
C3_BackToFront ==
    CameraFrame =>
        LET drawn == Drawn(glLog, "transparent")
            owner == FirstCameraEntity(world)
        IN  /\ drawn = transparentCommands
            /\ IsPermutation(drawn, ExpectedCommands(world, TRUE))
            /\ \A i \in 1..(Len(drawn) - 1) :
                   Depth(drawn[i], owner) >= Depth(drawn[i + 1], owner)

C3_Witness ==
    /\ CameraFrame
    /\ Len(Drawn(glLog, "transparent")) = 3
    /\ Drawn(glLog, "transparent") # ExpectedCommands(world, TRUE)
    /\ \E i \in 1..2 :
           Depth(Drawn(glLog, "transparent")[i], FirstCameraEntity(world))
               = Depth(Drawn(glLog, "transparent")[i + 1], FirstCameraEntity(world))

\* C4: the opaque commands are drawn in the order in which the traversal
\* visited their entities, and the opaque list is in that order too
C4_OpaqueOrder ==
    CameraFrame =>
        /\ Drawn(glLog, "opaque") = ExpectedCommands(world, FALSE)
        /\ opaqueCommands = ExpectedCommands(world, FALSE)

C4_Witness ==
    /\ CameraFrame
    /\ Len(Drawn(glLog, "opaque")) >= 2
    /\ \E i \in 1..Len(world) : world[i].camera # <<>> /\ i > 1

\* the scene w with the cached world-space fields of its spot and cone
\* lights blanked
WithoutCaches(w) ==
    [i \in 1..Len(w) |->
        [w[i] EXCEPT
            !.spot = [j \in 1..Len(w[i].spot) |->
                        [w[i].spot[j] EXCEPT !.worldPosition = Stale]],
            !.cone = [j \in 1..Len(w[i].cone) |->
                        [w[i].cone[j] EXCEPT !.worldPosition = Stale,
                                             !.worldDirection = Stale]]]]

\* a step is a render call on a world without a camera
NoCameraRenderStep == lastCall' = "render" /\ NoCamera(world)

\* C5 as stated: a render call that finds no camera changes the five lists
\* and nothing else - the GL state, the render targets, the renderer's
\* resources and every field of every scene component keep their values
C5_OnlyListsChange ==
    [][NoCameraRenderStep =>
          /\ world' = world
          /\ gl' = gl
          /\ heap' = heap
          /\ handles' = handles
          /\ Writes(glLog') = <<>>]_vars

\* C5 as amended: a render call that finds no camera changes the five lists
\* and the cached worldPosition of spot lights and worldPosition and
\* worldDirection of cone lights, and nothing else
C5_OnlyListsAndCachesChange ==
    [][NoCameraRenderStep =>
          /\ WithoutCaches(world') = WithoutCaches(world)
          /\ gl' = gl
          /\ heap' = heap
          /\ handles' = handles
          /\ Writes(glLog') = <<>>]_vars

C5_Witness ==
    /\ NoCameraFrame
    /\ postprocessMaterial # <<>>
    /\ \E i \in 1..Len(world) :
           /\ world[i].spot # <<>>
           /\ world[i].spot[1].worldPosition # Stale
    /\ \E i \in 1..Len(world) : world[i].spot = <<>> /\ world[i].meshRenderer # <<>>

\* the pointers to the components of a kind that the entities of w carry
ComponentsOf(w, kind) ==
    UNION { { [owner |-> w[i].name, kind |-> kind, index |-> j] :
                j \in 1..Len(w[i][kind]) } : i \in 1..Len(w) }

\* the sequence list holds every element of the set expected once and
\* nothing else
HoldsExactly(list, expected) ==
    /\ Len(list) = Cardinality(expected)
    /\ \A x \in expected : Count(list, x) = 1

\* C6: after every render call, with or without a camera, the light lists
\* hold exactly the lights of the entities of the world just rendered, each
\* once, and the two command lists hold exactly one command per mesh
\* renderer of that world; nothing of an earlier frame is left
C6_ListsRebuilt ==
    lastCall = "render" =>
        /\ HoldsExactly(directionalLights, ComponentsOf(world, "directional"))
        /\ HoldsExactly(spotLights, ComponentsOf(world, "spot"))
        /\ HoldsExactly(coneLights, ComponentsOf(world, "cone"))
        /\ IsPermutation(opaqueCommands, ExpectedCommands(world, FALSE))
        /\ IsPermutation(transparentCommands, ExpectedCommands(world, TRUE))

C6_Witness ==
    /\ NoCameraFrame
    /\ Len(coneLights) = 2
    /\ Len(spotLights) = 1
    /\ Len(opaqueCommands) = 1
    /\ Len(transparentCommands) = 1
    /\ Len(world) < MaxEntities

\* C7: after one destroy call every resource initialize created has been
\* released once and none is left live, and no resource of a feature that
\* was not enabled has been released
C7_DestroyReleasesAll ==
    destroyCalls = 1 =>
        /\ \A n \in Resources : heap[n].frees = heap[n].allocs
        /\ "sky" \in initConfig.keys =>
               \A n \in {"skySphere", "skyShader", "skyTexture", "skySampler",
                         "skyMaterial"} : heap[n].frees = 1
        /\ "postprocess" \in initConfig.keys =>
               \A n \in {"postprocessFrameBuffer", "postProcessVertexArray",
                         "colorTarget", "depthTarget", "postprocessSampler",
                         "postprocessShader", "postprocessMaterial"} : heap[n].frees = 1
        /\ "sky" \notin initConfig.keys =>
               \A n \in {"skySphere", "skyShader", "skyTexture", "skySampler",
                         "skyMaterial"} : heap[n].frees = 0
        /\ "postprocess" \notin initConfig.keys =>
               \A n \in {"postprocessFrameBuffer", "postProcessVertexArray",
                         "colorTarget", "depthTarget", "postprocessSampler",
                         "postprocessShader", "postprocessMaterial"} : heap[n].frees = 0

C7_Witness ==
    /\ destroyCalls = 1
    /\ lastCall = "destroy"
    /\ {"sky", "postprocess"} \subseteq initConfig.keys
    /\ \A n \in Resources : heap[n].allocs = 1

\* C8: initialize builds the sky resources exactly when the configuration
\* has the key sky, and the post-process resources - a framebuffer with an
\* RGBA8 color target and a 24-bit depth target of the window size, a vertex
\* array, a sampler, a shader, a material - exactly when it has the key
\* postprocess
C8_FeaturesFollowKeys ==
    lastCall # "construct" =>
        /\ \A n \in {"skySphere", "skyShader", "skyTexture", "skySampler", "skyMaterial"} :
               heap[n].allocs = IF "sky" \in initConfig.keys THEN 1 ELSE 0
        /\ \A n \in {"postprocessFrameBuffer", "postProcessVertexArray", "colorTarget",
                     "depthTarget", "postprocessSampler", "postprocessShader",
                     "postprocessMaterial"} :
               heap[n].allocs = IF "postprocess" \in initConfig.keys THEN 1 ELSE 0
        /\ (skyMaterial # <<>>) = ("sky" \in initConfig.keys)
        /\ (skySphere # <<>>) = ("sky" \in initConfig.keys)
        /\ (postprocessMaterial # <<>>) = ("postprocess" \in initConfig.keys)
        /\ (colorTarget # <<>>) = ("postprocess" \in initConfig.keys)
        /\ (depthTarget # <<>>) = ("postprocess" \in initConfig.keys)
        /\ "postprocess" \in initConfig.keys =>
               /\ colorTarget[1].format = "GL_RGBA8"
               /\ colorTarget[1].size = windowSize
               /\ depthTarget[1].format = "GL_DEPTH_COMPONENT24"
               /\ depthTarget[1].size = windowSize
               /\ gl.colorAttachment = <<colorTarget[1].name>>
               /\ gl.depthAttachment = <<depthTarget[1].name>>
               /\ postprocessFrameBuffer # 0
               /\ postProcessVertexArray # 0
        /\ "postprocess" \notin initConfig.keys =>
               gl.colorAttachment = <<>> /\ gl.depthAttachment = <<>>

C8_Witness ==
    /\ lastCall = "initialize"
    /\ initConfig.keys = {"postprocess"}
    /\ windowSize = <<640, 480>>

\* number of directional lights the entities of w carry
DirectionalLightsIn(w) ==
    Cardinality({i \in 1..Len(w) : w[i].directional # <<>>})

\* the draw e binds the uniform name to value
Binds(e, name, value) ==
    \E i \in 1..Len(e.uniforms) : e.uniforms[i][1] = name /\ e.uniforms[i][2] = value

\* one clear, one draw per command, one sky draw and one post-process pass
\* exactly when the feature is enabled
ExactCounts ==
    /\ Len(SelectSeq(glLog, LAMBDA e : e.op = "glClear")) = 1
    /\ Len(SelectSeq(glLog, LAMBDA e : e.op = "draw" /\ e.group = "opaque"))
           = Len(ExpectedCommands(world, FALSE))
    /\ Len(SelectSeq(glLog, LAMBDA e : e.op = "draw" /\ e.group = "transparent"))
           = Len(ExpectedCommands(world, TRUE))
    /\ IsPermutation(Drawn(glLog, "opaque") \o Drawn(glLog, "transparent"),
                     ExpectedCommands(world, FALSE) \o ExpectedCommands(world, TRUE))
    /\ Len(SelectSeq(glLog, LAMBDA e : e.op = "draw" /\ e.group = "sky"))
           = IF "sky" \in initConfig.keys THEN 1 ELSE 0
    /\ Len(SelectSeq(glLog, LAMBDA e : e.op = "glDrawArrays"))
           = IF "postprocess" \in initConfig.keys THEN 1 ELSE 0

First(log, op) ==
    IF \E i \in 1..Len(log) : log[i].op = op
    THEN CHOOSE i \in 1..Len(log) :
             log[i].op = op /\ \A j \in 1..(i - 1) : log[j].op # op
    ELSE 0

\* C10: with post-processing enabled, a frame with a camera binds the
\* offscreen framebuffer before the clear, the clear and every opaque, sky
\* and transparent draw go to it, the default framebuffer is rebound before
\* the 3-vertex draw, which goes to it, and it is the one bound when render
\* returns; with post-processing disabled render issues no framebuffer
\* binding and every clear and draw goes to the framebuffer bound before
C10_FramebufferBinding ==
    CameraFrame =>
        IF postprocessMaterial # <<>>
        THEN /\ First(glLog, "glBindFramebuffer") # 0
             /\ glLog[First(glLog, "glBindFramebuffer")].args = <<postprocessFrameBuffer>>
             /\ First(glLog, "glBindFramebuffer") < First(glLog, "glClear")
             /\ \A i \in 1..Len(glLog) :
                    glLog[i].op \in {"glClear", "draw"} =>
                        glLog[i].fb = postprocessFrameBuffer
             /\ \E b \in 1..Len(glLog) :
                    /\ glLog[b].op = "glBindFramebuffer"
                    /\ glLog[b].args = <<0>>
                    /\ b < First(glLog, "glDrawArrays")
                    /\ \A i \in 1..Len(glLog) : glLog[i].op = "draw" => i < b
                    /\ \A i \in (b + 1)..Len(glLog) : glLog[i].op # "glBindFramebuffer"
             /\ glLog[First(glLog, "glDrawArrays")].fb = 0
             /\ glLog[First(glLog, "glDrawArrays")].args = <<0, 3>>
             /\ gl.framebuffer = 0
        ELSE /\ First(glLog, "glBindFramebuffer") = 0
             /\ \A i \in 1..Len(glLog) : glLog[i].fb = gl.framebuffer

C10_Witness ==
    /\ CameraFrame
    /\ postprocessMaterial # <<>>
    /\ InGroup(glLog, "opaque") # <<>>
    /\ InGroup(glLog, "transparent") # <<>>
    /\ InGroup(glLog, "sky") # <<>>

\* the translation of a world transform: its last column
TranslationOf(m) == <<m[4][1], m[4][2], m[4][3]>>

\* C11: after a render call, with or without a camera, the cached
\* worldPosition of every spot light of the world equals the translation of
\* the world transform of the entity that owns it
C11_SpotWorldPosition ==
    lastCall = "render" =>
        \A i \in 1..Len(world) : \A j \in 1..Len(world[i].spot) :
            world[i].spot[j].worldPosition = TranslationOf(world[i].localToWorld)

C11_Witness ==
    /\ NoCameraFrame
    /\ \E i \in 1..Len(world) :
           /\ world[i].spot # <<>>
           /\ world[i].localToWorld[1] # Identity[1]
           /\ world[i].spot[1].worldPosition = <<1, 0, -3>>

\* the direction d turned by the rotation part of the transform m; the last
\* column of m, its translation, is not used
Rotated(m, d) ==
    << m[1][1] * d[1] + m[2][1] * d[2] + m[3][1] * d[3],
       m[1][2] * d[1] + m[2][2] * d[2] + m[3][2] * d[3],
       m[1][3] * d[1] + m[2][3] * d[2] + m[3][3] * d[3] >>

\* C12: after a render call every cone light of every entity, also each of
\* several on one entity, is in the cone-light list once, its worldDirection
\* is its direction turned by the owner's world transform without the
\* translation, and its worldPosition is the owner's world origin
C12_ConeWorldDirection ==
    lastCall = "render" =>
        \A i \in 1..Len(world) : \A j \in 1..Len(world[i].cone) :
            /\ Count(coneLights, [owner |-> world[i].name, kind |-> "cone", index |-> j]) = 1
            /\ world[i].cone[j].worldDirection
                   = Rotated(world[i].localToWorld, world[i].cone[j].direction)
            /\ world[i].cone[j].worldPosition = TranslationOf(world[i].localToWorld)

C12_Witness ==
    /\ lastCall = "render"
    /\ \E i \in 1..Len(world) :
           /\ Len(world[i].cone) = 2
           /\ TranslationOf(world[i].localToWorld) # <<0, 0, 0>>
           /\ world[i].cone[1].worldDirection # world[i].cone[1].direction
           /\ world[i].cone[2].worldDirection # world[i].cone[2].direction
           /\ world[i].cone[1].worldDirection # world[i].cone[2].worldDirection

\* the directional lights of the scene w, entity by entity
DirectionalOf(w) == [i \in 1..Len(w) |-> w[i].directional]

\* C13: a render call writes no field of a directional light: direction,
\* intensity and color of every directional light are the same after the
\* call as before it, whatever the transform of the owner
C13_DirectionalUntouched ==
    [][lastCall' = "render" => DirectionalOf(world') = DirectionalOf(world)]_vars

C13_Witness ==
    /\ lastCall = "render"
    /\ \E i \in 1..Len(world) :
           /\ world[i].directional # <<>>
           /\ world[i].localToWorld[1] # Identity[1]
           /\ Rotated(world[i].localToWorld, world[i].directional[1].direction)
                  # world[i].directional[1].direction

\* the uniforms of the name an event binds
ValuesOf(e, name) ==
    {e.uniforms[j][2] : j \in {j \in 1..Len(e.uniforms) : e.uniforms[j][1] = name}}

\* the draws of the latest render call
Draws(log) == SelectSeq(log, LAMBDA e : e.op = "draw")

\* the entities of the scene w before its first camera entity
BeforeFirstCamera(w) ==
    SubSeq(w, 1, (CHOOSE i \in 1..Len(w) : w[i].name = FirstCameraEntity(w).name) - 1)

\* C14: with several camera entities the frame uses the camera of the first
\* one in traversal order: its view-projection, its center for cameraPosition
\* and the sky placement, its forward axis for the depth order; the commands
\* and lights of entities before the camera entity are collected and drawn
C14_FirstCameraWins ==
    CameraFrame =>
        LET owner == FirstCameraEntity(world)
            camera == owner.camera[1]
            VP == MatMul(camera.projection, camera.view)
            center == TranslationOf(owner.localToWorld)
            forward == Rotated(owner.localToWorld, <<0, 0, -1>>)
            draws == Draws(glLog)
            before == BeforeFirstCamera(world)
        IN  /\ \A i \in 1..Len(draws) :
                  /\ draws[i].group # "sky" /\ IsDefaultMaterial(draws[i].material) =>
                         /\ ValuesOf(draws[i], "Camera") = {VP}
                         /\ ValuesOf(draws[i], "cameraPosition") = {center}
                  /\ draws[i].group # "sky" /\ ~IsDefaultMaterial(draws[i].material) =>
                         ValuesOf(draws[i], "transform")
                             = {MatMul(VP, draws[i].command[1].localToWorld)}
                  /\ draws[i].group = "sky" =>
                         /\ \A m \in ValuesOf(draws[i], "transform") :
                                TranslationOf(m) = center
                                    /\ m[1][1] = 2 * camera.orthoHeight
                         /\ ValuesOf(draws[i], "Camera")
                                = {MatMul(alwaysBehindTransform, VP)}
            /\ \A i, j \in 1..Len(transparentCommands) :
                  i < j => Dot(Sub(transparentCommands[i].center, center), forward)
                               >= Dot(Sub(transparentCommands[j].center, center), forward)
            /\ \A i \in 1..Len(before) :
                  /\ before[i].meshRenderer # <<>> =>
                         \E j \in 1..Len(draws) : draws[j].command = <<CommandOf(before[i])>>
                  /\ \A n \in 1..Len(before[i].directional) :
                         Count(directionalLights, [owner |-> before[i].name,
                                                   kind |-> "directional", index |-> n]) = 1
                  /\ before[i].spot # <<>> =>
                         Count(spotLights, [owner |-> before[i].name,
                                            kind |-> "spot", index |-> 1]) = 1
                  /\ \A n \in 1..Len(before[i].cone) :
                         Count(coneLights, [owner |-> before[i].name,
                                            kind |-> "cone", index |-> n]) = 1

C14_Witness ==
    /\ CameraFrame
    /\ Len(world) = 3
    /\ world[1].camera = <<>> /\ world[1].meshRenderer # <<>> /\ world[1].directional # <<>>
    /\ world[2].camera # <<>>
    /\ world[3].camera # <<>>
    /\ world[2].camera[1].projection # world[3].camera[1].projection
    /\ world[2].localToWorld # world[3].localToWorld
    /\ \E i \in 1..Len(glLog) : glLog[i].group = "sky"

\* the number of entities of the scene w that carry a mesh renderer
RECURSIVE MeshCount(_)
MeshCount(w) ==
    IF w = <<>> THEN 0
    ELSE (IF Head(w).meshRenderer # <<>> THEN 1 ELSE 0) + MeshCount(Tail(w))

\* C16: after a render call every entity with a mesh renderer has exactly one
\* command, made of its world transform, world origin, mesh and material, in
\* the transparent list if its material is transparent and in the opaque list
\* otherwise; the two lists hold nothing else and share no command
C16_OneCommandPerMesh ==
    lastCall = "render" =>
        /\ \A i \in 1..Len(world) :
              world[i].meshRenderer # <<>> =>
                  LET k == [localToWorld |-> world[i].localToWorld,
                            center |-> TranslationOf(world[i].localToWorld),
                            mesh |-> world[i].meshRenderer[1].mesh,
                            material |-> world[i].meshRenderer[1].material]
                  IN  /\ Count(transparentCommands, k)
                             = (IF k.material.transparent THEN 1 ELSE 0)
                      /\ Count(opaqueCommands, k)
                             = (IF k.material.transparent THEN 0 ELSE 1)
        /\ Len(opaqueCommands) + Len(transparentCommands) = MeshCount(world)
        /\ \A i \in 1..Len(opaqueCommands) : Count(transparentCommands, opaqueCommands[i]) = 0

C16_Witness ==
    /\ lastCall = "render"
    /\ MeshCount(world) = 3
    /\ Len(opaqueCommands) = 1
    /\ Len(transparentCommands) = 2
    /\ \E i \in 1..Len(world) : world[i].localToWorld[1] # Identity[1]

\* the uniform lists u and v bind the same names to the same values, in
\* whatever order
SameBindings(u, v) ==
    /\ Len(u) = Len(v)
    /\ \A i \in 1..Len(u) : \E j \in 1..Len(v) : v[j][1] = u[i][1] /\ v[j][2] = u[i][2]
    /\ \A j \in 1..Len(v) : \E i \in 1..Len(u) : u[i][1] = v[j][1] /\ u[i][2] = v[j][2]

\* the names of the uniforms an event binds
NamesOf(e) == {e.uniforms[j][1] : j \in 1..Len(e.uniforms)}

\* the number of light uniforms of a lit draw: a count for each kind and the
\* fields of each light collected
LightUniformCount ==
    3 + 3 * Len(directionalLights) + 4 * Len(spotLights) + 7 * Len(coneLights)

Carriers(w, kind) == SelectSeq(w, LAMBDA entity : entity[kind] # <<>>)

\* every cone light of the scene w with its owner: entity by entity, and for
\* one entity in the order of its components
RECURSIVE ConesOf(_)
ConesOf(w) ==
    IF w = <<>> THEN <<>>
    ELSE [j \in 1..Len(Head(w).cone) |-> [owner |-> Head(w), light |-> Head(w).cone[j]]]
         \o ConesOf(Tail(w))

\* where the event e binds the uniform of a name
IndexOf(e, name) == CHOOSE j \in 1..Len(e.uniforms) : e.uniforms[j][1] = name

\* the event e binds the name once, to the value, after position lo and
\* before position hi
BoundBetween(e, name, value, lo, hi) ==
    /\ Cardinality({j \in 1..Len(e.uniforms) : e.uniforms[j][1] = name}) = 1
    /\ e.uniforms[IndexOf(e, name)][2] = value
    /\ lo < IndexOf(e, name)
    /\ IndexOf(e, name) < hi

\* "<array>[i].<field>" for the i-th light, counted from 1, of an array
ElementName(array, i, field) == array \o "[" \o ToString(i - 1) \o "]." \o field

\* the light uniforms of the draw e of a frame of the scene w: the three
\* counts in the order directional, spot, cone, each followed by the lights of
\* its kind under their rank in scene order, spot and cone lights with the
\* world origin and the turned direction of their owner
LightRule(e, w) ==
    LET D == Carriers(w, "directional")
        S == Carriers(w, "spot")
        C == ConesOf(w)
        end == Len(e.uniforms) + 1
    IN  /\ BoundBetween(e, "directionalLightCount", Len(D), 0, end)
        /\ BoundBetween(e, "spotLightsCount", Len(S),
                        IndexOf(e, "directionalLightCount"), end)
        /\ BoundBetween(e, "coneLightsCount", Len(C), IndexOf(e, "spotLightsCount"), end)
        /\ Len(e.uniforms) = 4 + 3 + 3 * Len(D) + 4 * Len(S) + 7 * Len(C)
        /\ \A i \in 1..Len(D) :
              LET light == D[i].directional[1]
                  lo == IndexOf(e, "directionalLightCount")
                  hi == IndexOf(e, "spotLightsCount")
              IN  /\ BoundBetween(e, ElementName("directionalLights", i, "direction"),
                                  light.direction, lo, hi)
                  /\ BoundBetween(e, ElementName("directionalLights", i, "intensity"),
                                  light.intensity, lo, hi)
                  /\ BoundBetween(e, ElementName("directionalLights", i, "color"),
                                  light.color, lo, hi)
        /\ \A i \in 1..Len(S) :
              LET light == S[i].spot[1]
                  lo == IndexOf(e, "spotLightsCount")
                  hi == IndexOf(e, "coneLightsCount")
              IN  /\ BoundBetween(e, ElementName("spotLights", i, "position"),
                                  TranslationOf(S[i].localToWorld), lo, hi)
                  /\ BoundBetween(e, ElementName("spotLights", i, "intensity"),
                                  light.intensity, lo, hi)
                  /\ BoundBetween(e, ElementName("spotLights", i, "color"),
                                  light.color, lo, hi)
                  /\ BoundBetween(e, ElementName("spotLights", i, "decay"),
                                  light.lightDecay, lo, hi)
        /\ \A i \in 1..Len(C) :
              LET light == C[i].light
                  lo == IndexOf(e, "coneLightsCount")
              IN  /\ BoundBetween(e, ElementName("coneLights", i, "position"),
                                  TranslationOf(C[i].owner.localToWorld), lo, end)
                  /\ BoundBetween(e, ElementName("coneLights", i, "intensity"),
                                  light.intensity, lo, end)
                  /\ BoundBetween(e, ElementName("coneLights", i, "color"),
                                  light.color, lo, end)
                  /\ BoundBetween(e, ElementName("coneLights", i, "direction"),
                                  Rotated(C[i].owner.localToWorld, light.direction), lo, end)
                  /\ BoundBetween(e, ElementName("coneLights", i, "range"),
                                  light.range, lo, end)
                  /\ BoundBetween(e, ElementName("coneLights", i, "smoothing"),
                                  light.smoothing, lo, end)
                  /\ BoundBetween(e, ElementName("coneLights", i, "decay"),
                                  light.lightDecay, lo, end)

SkyPoints == {<<x, y, z, 1>> : x, y, z \in {-2, 0, 3}} \cup {<<1, -1, 2, 0>>}

\* the sky draws of a log
SkyDraws(log) == SelectSeq(log, LAMBDA e : e.op = "draw" /\ e.group = "sky")

\* C19: the Camera matrix bound for the sky draw maps every point to clip
\* coordinates whose z equals their w and whose x, y and w are those VP
\* gives, and the transform bound for the sky draw maps the sphere's center
\* to the world position of the camera
C19_SkyAtMaximumDepth ==
    CameraFrame =>
        LET owner == FirstCameraEntity(world)
            VP == MatMul(owner.camera[1].projection, owner.camera[1].view)
            sky == SkyDraws(glLog)
        IN  \A n \in 1..Len(sky) :
                /\ \A C \in ValuesOf(sky[n], "Camera") : \A p \in SkyPoints :
                      /\ MatVec(C, p)[3] = MatVec(C, p)[4]
                      /\ MatVec(C, p)[1] = MatVec(VP, p)[1]
                      /\ MatVec(C, p)[2] = MatVec(VP, p)[2]
                      /\ MatVec(C, p)[4] = MatVec(VP, p)[4]
                /\ ValuesOf(sky[n], "Camera") # {}
                /\ ValuesOf(sky[n], "transform") # {}
                /\ \A m \in ValuesOf(sky[n], "transform") :
                      MatVec(m, <<0, 0, 0, 1>>)
                          = Vec4(TranslationOf(owner.localToWorld), 1)

C19_Witness ==
    /\ CameraFrame
    /\ SkyDraws(glLog) # <<>>
    /\ TranslationOf(FirstCameraEntity(world).localToWorld) # <<0, 0, 0>>
    /\ FirstCameraEntity(world).camera[1].projection = PerspProjection
    /\ \E p \in SkyPoints :
           LET VP == MatMul(FirstCameraEntity(world).camera[1].projection,
                            FirstCameraEntity(world).camera[1].view)
           IN  MatVec(VP, p)[3] # MatVec(VP, p)[4]

\* the fullscreen passes of a log
PostprocessEvents(log) == SelectSeq(log, LAMBDA e : e.group = "postprocess")

\* C15: when the setup of a feature failed during initialize - a shader of
\* the feature did not attach or link - the feature is absent afterwards:
\* its material handle is null and a render call issues no sky draw, or no
\* post-process pass, for it
C15_FailedFeatureAbsent ==
    lastCall # "construct" =>
        /\ "skyShader" \in initFailed =>
               /\ skyMaterial = <<>>
               /\ lastCall = "render" => SkyDraws(glLog) = <<>>
        /\ "postprocessShader" \in initFailed =>
               /\ postprocessMaterial = <<>>
               /\ lastCall = "render" => PostprocessEvents(glLog) = <<>>

\* C20: in every sequence of calls that starts with initialize no resource
\* is released more often than it was created and no call runs on a released
\* resource: once destroy was called skyMaterial and postprocessMaterial
\* are null, a further destroy releases nothing and a later render draws
\* neither the sky nor the post-process pass
C20_NoUseAfterDestroy ==
    /\ \A n \in Resources : heap[n].frees <= heap[n].allocs
    /\ lastCall # "crash"
    /\ destroyCalls > 0 =>
           /\ skyMaterial = <<>>
           /\ postprocessMaterial = <<>>
           /\ lastCall = "render" =>
                  SkyDraws(glLog) = <<>> /\ PostprocessEvents(glLog) = <<>>

====
